---- MODULE Spec2Model ----
(***************************************************************************)
(* ESP32miniFDR: the barometer acquisition module (barometer.cpp), the     *)
(* flight data recorder (fdr.cpp) and the host loop with its HTTP control  *)
(* surface (main.cpp), as one state machine.                               *)
(*                                                                         *)
(* Conventions                                                             *)
(*  - uint32_t values (millis(), the fdr_*_ms fields, the request          *)
(*    arguments) are pairs <<hi, lo>> of 16-bit halves, so that all        *)
(*    arithmetic is exactly the 32-bit modular arithmetic of the target.   *)
(*  - a float is NaN or an integer count of 1/PUnit (pressure, hPa) or of  *)
(*    whole degrees (temperature).                                         *)
(*  - the file and the RAM buffer are sequences of bytes (one-character    *)
(*    strings); the header line is one element because it is written by a  *)
(*    single println() whose result the code does not look at.             *)
(*  - every handler reads millis() once: it runs at `clock`.               *)
(***************************************************************************)
EXTENDS Integers, Sequences, FiniteSets, TLC

\* ------------------------------------------------------------------------
\* Bounds of the model (not program constants)
\* ------------------------------------------------------------------------

\* Total milliseconds the clock advances in one behaviour.
MaxUptime == 1000

\* HTTP requests handled in one behaviour.
MaxRequests == 2

\* Sample lines accepted in one behaviour.
MaxLines == 2

\* ------------------------------------------------------------------------
\* uint32_t arithmetic on <<hi, lo>> pairs
\* ------------------------------------------------------------------------

Half == 2 ^ 16

U32Of(n) == <<n \div Half, n % Half>>

U32Nat(a) == a[1] * Half + a[2]

U32Add(a, b) ==
  LET lo == a[2] + b[2]
  IN  <<(a[1] + b[1] + (lo \div Half)) % Half, lo % Half>>

U32Sub(a, b) ==
  LET lo == a[2] - b[2] + Half
  IN  <<(a[1] - b[1] - (1 - (lo \div Half)) + Half) % Half, lo % Half>>

\* a * k modulo 2^32, for 0 <= k < 2^15
U32Mul(a, k) ==
  LET lo == a[2] * k
  IN  <<(a[1] * k + (lo \div Half)) % Half, lo % Half>>

U32Ge(a, b) == a[1] > b[1] \/ (a[1] = b[1] /\ a[2] >= b[2])

U32Zero == <<0, 0>>

\* 2^32 - n, for 0 < n < 2^16
U32Neg(n) == <<Half - 1, Half - n>>

\* ------------------------------------------------------------------------
\* Floats
\* ------------------------------------------------------------------------

\* NaN: a value no reading of the model takes
NaN == 0 - 2 ^ 30

\* pressure resolution of the model: 2^-17 hPa
PUnit == 2 ^ 17

hPa(n) == n * PUnit

\* ------------------------------------------------------------------------
\* Text: snprintf(line, sizeof(line), "%.3f,%.2f\n", t_sec, pressure)
\* ------------------------------------------------------------------------

DigitChars == <<"0", "1", "2", "3", "4", "5", "6", "7", "8", "9">>

Digit(d) == DigitChars[d + 1]

RECURSIVE Decimal(_)
Decimal(n) ==
  IF n < 10 THEN <<Digit(n)>> ELSE Decimal(n \div 10) \o <<Digit(n % 10)>>

\* "%.3f" of (float)ms / 1000.0f.  The float quotient is within half an ulp
\* of ms/1000, which is below 0.0005 for ms < 16384000, so the three decimals
\* printed are those of ms itself on every elapsed time the model reaches.
SecondsText(ms) ==
  Decimal(ms \div 1000) \o <<".">> \o
  <<Digit((ms % 1000) \div 100), Digit(((ms % 1000) \div 10) % 10), Digit(ms % 10)>>

\* "%.2f" of a float: "nan" for NaN, else the value rounded to hundredths
\* (ties to even).
PressureText(p) ==
  IF p = NaN THEN <<"n", "a", "n">>
  ELSE LET whole == p \div PUnit
           num   == (p % PUnit) * 100
           q     == num \div PUnit
           r     == num % PUnit
           up    == (2 * r > PUnit) \/ (2 * r = PUnit /\ q % 2 = 1)
           h     == IF up THEN q + 1 ELSE q
           w     == IF h = 100 THEN whole + 1 ELSE whole
           hh    == IF h = 100 THEN 0 ELSE h
       IN  Decimal(w) \o <<".">> \o <<Digit(hh \div 10), Digit(hh % 10)>>

CsvLine(ms, p) == SecondsText(ms) \o <<",">> \o PressureText(p) \o <<"\n">>

\* fdr_file.println("timestamp_s,pressure_hpa"): println ends the line with CR LF
HeaderLine == "timestamp_s,pressure_hpa\r\n"

Take(s, n) == SubSeq(s, 1, n)

Drop(s, n) == SubSeq(s, n + 1, Len(s))

\* ------------------------------------------------------------------------
\* Program constants
\* ------------------------------------------------------------------------

BME280_ADDRESS_PRIMARY == 118
BME280_ADDRESS_SECONDARY == 119
BME280_CHIP_ID == 88
\* a re-scan forced one bad reading later than BAD_READS_MAX
BAD_READS_LATE == 3 + 1

BAD_READS_MAX == 3
TEMPERATURE_MIN == -40
TEMPERATURE_MAX == 85
PRESSURE_MIN == 300
PRESSURE_MAX == 1100
MAX_SAMPLES_PER_SEC == 50
BUFFER_FLUSH_THRESHOLD == 1024
BUFFER_FLUSH_INTERVAL_MS == 250

\* ------------------------------------------------------------------------
\* State
\* ------------------------------------------------------------------------

VARIABLES
  clock,                  \* millis()
  pc,                     \* position in loop(): "sensor", "request", "recorder"
  \* barometer.cpp
  bme_ok, bmp_used, bad_read_count, lastTemp, lastPressure, pressure_ema,
  deviceCount,
  obs,                    \* the last barometer call: its kind ("init", "scan",
                          \* "read"), the addresses that acknowledged, the
                          \* driver calls it made in order, and the last
                          \* readings (at most three) taken since the sensor
                          \* was found
  sensor_profile,         \* setSampling() profile of the driver in use
  \* led.cpp
  led,
  \* fdr.cpp
  fdr_active, fdr_end_ms, fdr_start_ms, last_sample_ms,
  fdr_sample_interval_ms, spiffs_mounted, fdr_file, fdr_write_buffer,
  last_flush_ms,
  store,                  \* SPIFFS: /fdr.csv, [exists, data]
  \* history
  accepted,               \* concatenated lines of the samples accepted since the last successful fdr_start()
  session,                \* the last successful fdr_start(): its duration_s and
                          \* samples_per_sec, the uptime it ran at, the uptime of the last tick taken
                          \* and of the last sample accepted since (<<>>: none),
                          \* and whether no fdr_reset() and no further
                          \* fdr_start() followed it
  ev,                     \* what the last handler did
  uptime,                 \* milliseconds since Init
  requests,               \* HTTP requests handled since Init
  lines                   \* sample lines accepted since Init

sensorVars == <<bme_ok, bmp_used, bad_read_count, lastTemp, lastPressure,
                pressure_ema, deviceCount, obs>>

fdrVars == <<fdr_active, fdr_end_ms, fdr_start_ms, last_sample_ms,
             fdr_sample_interval_ms, spiffs_mounted, fdr_file,
             fdr_write_buffer, last_flush_ms, store>>

vars == <<clock, pc, sensorVars, sensor_profile, led, fdrVars, accepted,
          session, ev, uptime, requests, lines>>

NoFile == [exists |-> FALSE, data |-> <<>>]

File(bytes) == [exists |-> TRUE, data |-> bytes]

\* ------------------------------------------------------------------------
\* barometer.cpp
\* ------------------------------------------------------------------------

\* a validation that looks at the pressure only
validatePressureOnly(temperature, pressure) ==
  /\ pressure # NaN
  /\ pressure >= hPa(PRESSURE_MIN) /\ pressure <= hPa(PRESSURE_MAX)

validateSensorReadings(temperature, pressure) ==
  /\ temperature # NaN
  /\ temperature >= TEMPERATURE_MIN /\ temperature <= TEMPERATURE_MAX
  /\ pressure # NaN
  /\ pressure >= hPa(PRESSURE_MIN) /\ pressure <= hPa(PRESSURE_MAX)

\* spacing of the floats around v (v > 0 in pressure units, at least 64 hPa):
\* the power of two u with v / u in [2^23, 2^24)
RECURSIVE UlpFrom(_, _)
UlpFrom(v, u) == IF v \div u < 2 ^ 24 THEN u ELSE UlpFrom(v, 2 * u)

\* num / den rounded to the nearest float, ties to even
RoundFloat(num, den) ==
  LET u   == UlpFrom(num \div den, 1)
      k   == num \div (den * u)
      rem == num - k * den * u
      up  == (2 * rem > den * u) \/ (2 * rem = den * u /\ k % 2 = 1)
  IN  (IF up THEN k + 1 ELSE k) * u

initializePressureEMA(ema, initial_pressure) ==
  IF ema = NaN THEN initial_pressure ELSE ema

\* the update with the two weights exchanged
updatePressureEMASwapped(ema, raw_pressure) ==
  IF raw_pressure = NaN \/ ema = NaN THEN NaN
  ELSE RoundFloat((ema \div 4) + RoundFloat(3 * raw_pressure, 4), 1)

\* PRESSURE_EMA_ALPHA * raw + (1.0f - PRESSURE_EMA_ALPHA) * ema, alpha = 0.25f:
\* the first product is exact, the second product and the sum are rounded
updatePressureEMA(ema, raw_pressure) ==
  IF raw_pressure = NaN \/ ema = NaN THEN NaN
  ELSE RoundFloat((raw_pressure \div 4) + RoundFloat(3 * ema, 4), 1)

\* one call of a driver (bme.begin, bmp.begin) or of readChipID(): its
\* result and, for readChipID(), the value it read (0: none)
Call(drv, addr, ok, val) == [drv |-> drv, addr |-> addr, ok |-> ok, val |-> val]

\* the calls the fallback ladder makes, in order, up to the first break
ProbeAttempts(o) ==
  LET chipid == IF o.idRead THEN o.id ELSE 0
      a1 == <<Call("bme", BME280_ADDRESS_PRIMARY, o.bme1, 0)>>
      a2 == a1 \o <<Call("id", BME280_ADDRESS_PRIMARY, o.idRead, chipid)>>
      a3 == a2 \o <<Call("bme", BME280_ADDRESS_PRIMARY, o.bme2, 0)>>
      a4 == a3 \o <<Call("bme", BME280_ADDRESS_SECONDARY, o.bme3, 0)>>
      a5 == a4 \o <<Call("bmp", BME280_ADDRESS_PRIMARY, o.bmp, 0)>>
  IN  IF o.bme1 THEN a1
      ELSE IF o.bme2 THEN a3
      ELSE IF o.bme3 THEN a4
      ELSE IF chipid = BME280_CHIP_ID THEN a5
      ELSE a4

\* the readings kept in obs
LastReads(reads) ==
  IF Len(reads) > 3 THEN SubSeq(reads, Len(reads) - 2, Len(reads)) ELSE reads

Obs(kind, resp, attempts, reads) ==
  [kind |-> kind, resp |-> resp, attempts |-> attempts, reads |-> reads]

\* a ladder that gives up after the first call
ProbeLadderFirstOnly(o) == IF o.bme1 THEN "bme" ELSE "none"

\* a ladder that tries the BMP280 driver whatever the chip ID
ProbeLadderAnyId(o) ==
  IF o.bme1 \/ o.bme2 \/ o.bme3 THEN "bme"
  ELSE IF o.bmp THEN "bmp"
  ELSE "none"

\* The fallback ladder run when the primary address acknowledges:
\* "bme", "bmp" or "none".
ProbeLadder(o) ==
  LET chipid == IF o.idRead THEN o.id ELSE 0
  IN  IF o.bme1 THEN "bme"
      ELSE IF o.bme2 THEN "bme"
      ELSE IF o.bme3 THEN "bme"
      ELSE IF chipid = BME280_CHIP_ID /\ o.bmp THEN "bmp"
      ELSE "none"

\* scanAndTryInit(), entered with bme_ok false: addresses 1..119 in order,
\* the ladder at the primary address, break on the first success.
scanAndTryInit(resp, o) ==
  LET found == IF BME280_ADDRESS_PRIMARY \in resp THEN ProbeLadder(o) ELSE "none"
      count == IF found = "none"
               THEN Cardinality({i \in resp : i >= 1 /\ i < 120})
               ELSE Cardinality({i \in resp : i >= 1 /\ i <= BME280_ADDRESS_PRIMARY})
  IN  /\ deviceCount' = count
      /\ IF found = "none"
         THEN UNCHANGED <<bme_ok, bmp_used, sensor_profile>>
         ELSE /\ bme_ok' = TRUE
              /\ bmp_used' = (found = "bmp")
              /\ sensor_profile' = "high"
      /\ obs' = Obs("scan", resp,
                    IF BME280_ADDRESS_PRIMARY \in resp THEN ProbeAttempts(o)
                    ELSE <<>>, <<>>)
      /\ UNCHANGED <<bad_read_count, lastTemp, lastPressure, pressure_ema>>

barometer_process(temperature, raw_pressure, resp, o) ==
  IF ~bme_ok THEN scanAndTryInit(resp, o)
  ELSE
    LET ema == updatePressureEMA(initializePressureEMA(pressure_ema, raw_pressure),
                                 raw_pressure)
        bad == bad_read_count + 1
    IN  /\ pressure_ema' = ema
        /\ obs' = Obs("read", {},  <<>>,
                      LastReads(obs.reads \o <<<<temperature, raw_pressure>>>>))
        /\ lastTemp' = temperature
        /\ lastPressure' = ema
        /\ IF validateSensorReadings(temperature, raw_pressure)
           THEN /\ bad_read_count' = 0
                /\ UNCHANGED <<bme_ok, bmp_used>>
           ELSE IF bad >= BAD_READS_MAX
                THEN /\ bme_ok' = FALSE
                     /\ bmp_used' = FALSE
                     /\ bad_read_count' = 0
                ELSE /\ bad_read_count' = bad
                     /\ UNCHANGED <<bme_ok, bmp_used>>
        /\ UNCHANGED <<deviceCount, sensor_profile>>

barometer_isReady == bme_ok

barometer_getPressure == lastPressure

\* the profile barometer_setFastMode(fast) leaves the driver in use with
barometer_setFastMode(fast) ==
  IF ~bme_ok THEN sensor_profile
  ELSE IF fast THEN "fast" ELSE "high"

\* ------------------------------------------------------------------------
\* fdr.cpp: helpers
\* ------------------------------------------------------------------------

\* SPIFFS.begin() results of one ensureSpiffs(): <<begin(false), begin(true)>>
Mounted == <<TRUE, TRUE>>

\* the SPIFFS.begin(formatOnFail) calls one ensureSpiffs() makes, in order
MountCallsRepeated(mounted, mnt) == IF mnt[1] THEN <<FALSE>> ELSE <<FALSE, TRUE>>

MountCalls(mounted, mnt) ==
  IF mounted THEN <<>>
  ELSE IF mnt[1] THEN <<FALSE>>
  ELSE <<FALSE, TRUE>>

\* the value ensureSpiffs() returns and leaves in spiffs_mounted
ensureSpiffs(mounted, mnt) == mounted \/ mnt[1] \/ mnt[2]

\* SPIFFS.begin(true) formats the partition when the mount fails again
StoreAfterMount(mounted, st, mnt) ==
  IF ~mounted /\ ~mnt[1] /\ mnt[2] THEN NoFile ELSE st

Contents(st) == st.data

\* a flush that clears the buffer whatever write() returned
BufferCleared(buf, wrote) == <<>>

\* a flush that keeps the whole buffer unless write() took all of it
BufferKeptWhole(buf, wrote) == IF wrote = Len(buf) THEN <<>> ELSE buf

\* what flushBufferToFile() leaves in the buffer after write() returned `wrote`
BufferAfterWrite(buf, wrote) ==
  IF wrote = Len(buf) THEN <<>>
  ELSE IF wrote > 0 /\ wrote < Len(buf) THEN Drop(buf, wrote)
  ELSE buf

\* the write() call and what follows it in flushBufferToFile()
WriteBuffer(s, now, wrote) ==
  [s EXCEPT !.store = File(Contents(s.store) \o Take(s.buf, wrote)),
            !.buf = BufferAfterWrite(s.buf, wrote),
            !.last_flush = now,
            !.wrote = wrote]

\* flushBufferToFile() on s = [buf, open, mounted, store, last_flush, wrote];
\* mnt: the mount results, app: whether open(FILE_APPEND) succeeds,
\* wrote: what write() returns.  wrote = -1 in the result: no write was made.
flushBufferToFile(s, now, mnt, app, wrote) ==
  IF Len(s.buf) = 0 THEN s
  ELSE IF ~s.open
  THEN LET m  == ensureSpiffs(s.mounted, mnt)
           st == StoreAfterMount(s.mounted, s.store, mnt)
       IN  IF ~m THEN s
           ELSE IF ~app THEN [s EXCEPT !.mounted = m, !.store = st]
           ELSE WriteBuffer([s EXCEPT !.mounted = m, !.store = File(Contents(st)),
                                      !.open = TRUE], now, wrote)
  ELSE WriteBuffer(s, now, wrote)

FlushInput(buf) ==
  [buf |-> buf, open |-> fdr_file, mounted |-> spiffs_mounted, store |-> store,
   last_flush |-> last_flush_ms, wrote |-> -1]

\* 1000 / samples_per_sec without the upper clamp (0 still counts as 1)
SampleIntervalUnclamped(samples_per_sec) ==
  IF samples_per_sec = U32Zero THEN 1000
  ELSE IF samples_per_sec[1] > 0 THEN 0
  ELSE 1000 \div samples_per_sec[2]

\* samples_per_sec normalised, then 1000 / samples_per_sec
SampleInterval(samples_per_sec) ==
  LET s1 == IF samples_per_sec = U32Zero THEN U32Of(1) ELSE samples_per_sec
      s2 == IF U32Ge(s1, U32Of(MAX_SAMPLES_PER_SEC + 1))
            THEN MAX_SAMPLES_PER_SEC ELSE U32Nat(s1)
  IN  1000 \div s2

\* fdr_start_ms + duration_s * 1000UL
EndTime(start_ms, duration_s) == U32Add(start_ms, U32Mul(duration_s, 1000))

\* now >= fdr_end_ms
Expired(now) == U32Ge(now, fdr_end_ms)

\* last_sample_ms == 0 || (now - last_sample_ms) >= fdr_sample_interval_ms
SampleDue(now) ==
  \/ last_sample_ms = U32Zero
  \/ U32Ge(U32Sub(now, last_sample_ms), U32Of(fdr_sample_interval_ms))

\* the flush condition of fdr_process()
FlushDue(buf, now) ==
  \/ Len(buf) >= BUFFER_FLUSH_THRESHOLD
  \/ U32Ge(U32Sub(now, last_flush_ms), U32Of(BUFFER_FLUSH_INTERVAL_MS))

\* last_sample_ms after a tick found due at `now`
TickTime(now, ready) == now

\* the record of a handler's run: its name, its arguments, its result, whether
\* a tick was due, whether a sample was accepted, what write() returned (-1:
\* write() was not called), the SPIFFS.begin() calls of its ensureSpiffs()
Ev(op, arg, ok, due, sampled, wrote) ==
  [op |-> op, arg |-> arg, ok |-> ok, due |-> due, sampled |-> sampled,
   wrote |-> wrote, mounts |-> <<>>]

\* the record of a handler that begins with ensureSpiffs()
EvMount(e, mnt) == [e EXCEPT !.mounts = MountCalls(spiffs_mounted, mnt)]

NoArg == <<U32Zero, U32Zero>>

\* ------------------------------------------------------------------------
\* fdr.cpp: public API
\* ------------------------------------------------------------------------

DEFAULT_SAMPLE_INTERVAL_MS == 1000

\* the indicator left showing the recording colour
led_keptGreen == "green"

\* led_setBlue(): the colour shown when no session is recording
led_setBlue == "blue"

\* The body of fdr_stop() once fdr_active is known to hold.  The store is
\* mounted whenever a session is active, so ensureSpiffs() inside the flush
\* returns at once.
StopSession(op, app, wrote) ==
  LET r == flushBufferToFile(FlushInput(fdr_write_buffer), clock, Mounted, app, wrote)
  IN  /\ fdr_write_buffer' = r.buf
      /\ store' = r.store
      /\ spiffs_mounted' = r.mounted
      /\ last_flush_ms' = r.last_flush
      /\ fdr_file' = FALSE
      /\ fdr_active' = FALSE
      /\ sensor_profile' = barometer_setFastMode(FALSE)
      /\ led' = led_setBlue
      /\ ev' = Ev(op, NoArg, TRUE, FALSE, FALSE, r.wrote)
      /\ UNCHANGED <<fdr_end_ms, fdr_start_ms, last_sample_ms,
                     fdr_sample_interval_ms, accepted, session>>

\* an open(FILE_WRITE) that keeps the content of an existing file
openFdrFileKeeping(st) == IF st.exists THEN st ELSE File(<<HeaderLine>>)

\* /fdr.csv after a successful openFdrFileForWrite(): removed, created anew,
\* the header line printed
openFdrFileForWrite(st) == File(<<HeaderLine>>)

\* mnt: the mount results; create: whether open(FILE_WRITE) succeeds
fdr_start(duration_s, samples_per_sec, mnt, create) ==
  LET m == ensureSpiffs(spiffs_mounted, mnt)
  IN  IF ~m
      THEN /\ ev' = EvMount(Ev("start", <<duration_s, samples_per_sec>>, FALSE, FALSE, FALSE, -1), mnt)
           /\ UNCHANGED <<fdrVars, sensor_profile, led, accepted, session>>
      ELSE /\ spiffs_mounted' = TRUE
           /\ fdr_sample_interval_ms' = SampleInterval(samples_per_sec)
           /\ IF ~create
              THEN \* openFdrFileForWrite(): handle closed, file removed, open failed
                   /\ fdr_file' = FALSE
                   /\ store' = NoFile
                   /\ session' = [session EXCEPT !.whole = FALSE]
                   /\ ev' = EvMount(Ev("start", <<duration_s, samples_per_sec>>, FALSE, FALSE, FALSE, -1), mnt)
                   /\ UNCHANGED <<fdr_active, fdr_end_ms, fdr_start_ms,
                                  last_sample_ms, fdr_write_buffer, last_flush_ms,
                                  sensor_profile, led, accepted>>
              ELSE /\ fdr_file' = TRUE
                   /\ store' = openFdrFileForWrite(store)
                   /\ fdr_write_buffer' = <<>>
                   /\ last_flush_ms' = clock
                   /\ fdr_active' = TRUE
                   /\ fdr_start_ms' = clock
                   /\ fdr_end_ms' = EndTime(clock, duration_s)
                   /\ last_sample_ms' = U32Zero
                   /\ sensor_profile' = barometer_setFastMode(TRUE)
                   /\ led' = "green"
                   /\ accepted' = <<>>
                   /\ session' = [whole |-> TRUE, dur |-> duration_s,
                                  rate |-> samples_per_sec, up |-> uptime,
                                  tick |-> <<>>, accept |-> <<>>]
                   /\ ev' = EvMount(Ev("start", <<duration_s, samples_per_sec>>, TRUE, FALSE, FALSE, -1), mnt)

\* a stop without the test of fdr_active
fdr_stop_unguarded(app, wrote) == StopSession("stop", app, wrote)

\* a stop that only marks the session as over and leaves the work to the
\* next fdr_process()
fdr_stop_deferred(app, wrote) ==
  /\ fdr_end_ms' = clock
  /\ ev' = Ev("stop", NoArg, fdr_active, FALSE, FALSE, -1)
  /\ UNCHANGED <<fdr_active, fdr_start_ms, last_sample_ms,
                 fdr_sample_interval_ms, spiffs_mounted, fdr_file,
                 fdr_write_buffer, last_flush_ms, store, sensor_profile, led,
                 accepted, session>>

fdr_stop(app, wrote) ==
  IF ~fdr_active
  THEN /\ ev' = Ev("stop", NoArg, FALSE, FALSE, FALSE, -1)
       /\ UNCHANGED <<fdrVars, sensor_profile, led, accepted, session>>
  ELSE StopSession("stop", app, wrote)

fdr_reset(mnt) ==
  LET m == ensureSpiffs(spiffs_mounted, mnt)
  IN  /\ spiffs_mounted' = m
      /\ IF ~m
         THEN /\ ev' = EvMount(Ev("reset", NoArg, FALSE, FALSE, FALSE, -1), mnt)
              /\ UNCHANGED <<fdr_file, store, session>>
         ELSE /\ fdr_file' = FALSE
              /\ store' = NoFile
              /\ session' = [session EXCEPT !.whole = FALSE]
              /\ ev' = EvMount(Ev("reset", NoArg, TRUE, FALSE, FALSE, -1), mnt)
      /\ UNCHANGED <<fdr_active, fdr_end_ms, fdr_start_ms, last_sample_ms,
                     fdr_sample_interval_ms, fdr_write_buffer, last_flush_ms,
                     sensor_profile, led, accepted>>

fdr_isActive == fdr_active

\* the line fdr_process() formats at `clock`
SampleLine == CsvLine(U32Nat(U32Sub(clock, fdr_start_ms)), barometer_getPressure)

\* the bytes fdr_process() hands to write() at `clock`, if it flushes
BytesToWrite ==
  IF ~fdr_active THEN <<>>
  ELSE IF Expired(clock) THEN fdr_write_buffer
  ELSE IF SampleDue(clock) /\ barometer_isReady
          /\ FlushDue(fdr_write_buffer \o SampleLine, clock)
  THEN fdr_write_buffer \o SampleLine
  ELSE <<>>

fdr_process(app, wrote) ==
  IF ~fdr_active
  THEN /\ ev' = Ev("process", NoArg, FALSE, FALSE, FALSE, -1)
       /\ UNCHANGED <<fdrVars, sensor_profile, led, accepted, session>>
  ELSE IF Expired(clock)
  THEN StopSession("expire", app, wrote)
  ELSE IF ~SampleDue(clock)
  THEN /\ ev' = Ev("process", NoArg, TRUE, FALSE, FALSE, -1)
       /\ UNCHANGED <<fdrVars, sensor_profile, led, accepted, session>>
  ELSE IF ~barometer_isReady
  THEN /\ last_sample_ms' = TickTime(clock, FALSE)
       /\ ev' = Ev("process", NoArg, TRUE, TRUE, FALSE, -1)
       /\ session' = [session EXCEPT !.tick = <<uptime>>]
       /\ UNCHANGED <<fdr_active, fdr_end_ms, fdr_start_ms,
                      fdr_sample_interval_ms, spiffs_mounted, fdr_file,
                      fdr_write_buffer, last_flush_ms, store,
                      sensor_profile, led, accepted>>
  ELSE LET line == SampleLine
           buf  == fdr_write_buffer \o line
           r    == IF FlushDue(buf, clock)
                   THEN flushBufferToFile(FlushInput(buf), clock, Mounted, app, wrote)
                   ELSE FlushInput(buf)
       IN  /\ last_sample_ms' = TickTime(clock, TRUE)
           /\ accepted' = accepted \o line
           /\ fdr_write_buffer' = r.buf
           /\ store' = r.store
           /\ spiffs_mounted' = r.mounted
           /\ fdr_file' = r.open
           /\ last_flush_ms' = r.last_flush
           /\ ev' = Ev("process", NoArg, TRUE, TRUE, TRUE, r.wrote)
           /\ session' = [session EXCEPT !.tick = <<uptime>>, !.accept = <<uptime>>]
           /\ UNCHANGED <<fdr_active, fdr_end_ms, fdr_start_ms,
                          fdr_sample_interval_ms, sensor_profile, led>>

\* mnt: the mount results; read: whether open(FILE_READ) succeeds.
\* ev.ok: the file was streamed (its content is store').
fdr_streamFile(mnt, app, wrote, read) ==
  LET m  == ensureSpiffs(spiffs_mounted, mnt)
      st == StoreAfterMount(spiffs_mounted, store, mnt)
  IN  IF ~m \/ st = NoFile
      THEN /\ spiffs_mounted' = m
           /\ store' = st
           /\ ev' = EvMount(Ev("download", NoArg, FALSE, FALSE, FALSE, -1), mnt)
           /\ UNCHANGED <<fdr_active, fdr_end_ms, fdr_start_ms, last_sample_ms,
                          fdr_sample_interval_ms, fdr_file, fdr_write_buffer,
                          last_flush_ms, sensor_profile, led, accepted,
                          session>>
      ELSE LET s0 == [FlushInput(fdr_write_buffer) EXCEPT !.mounted = m, !.store = st]
               r  == IF fdr_active /\ Len(fdr_write_buffer) > 0
                     THEN flushBufferToFile(s0, clock, Mounted, app, wrote)
                     ELSE s0
           IN  /\ fdr_write_buffer' = r.buf
               /\ store' = r.store
               /\ spiffs_mounted' = r.mounted
               /\ fdr_file' = r.open
               /\ last_flush_ms' = r.last_flush
               /\ ev' = EvMount(Ev("download", NoArg, read, FALSE, FALSE, r.wrote), mnt)
               /\ UNCHANGED <<fdr_active, fdr_end_ms, fdr_start_ms,
                              last_sample_ms, fdr_sample_interval_ms,
                              sensor_profile, led, accepted, session>>

\* ------------------------------------------------------------------------
\* main.cpp: setup() and loop()
\*
\* The environment of one specification is a record c of input sets:
\*   clocks     millis() at the pass of loop() a behaviour begins with
\*   stores     /fdr.csv as an earlier power cycle left it
\*   probes     results of bme.begin(0x76) in barometer_init()
\*   deltas     milliseconds one pass of loop() takes (spent in the sensor phase)
\*   temps, raws           readings of the driver in use
\*   resps, outcomes       bus scan: acknowledging addresses, driver results
\*   durations, rates      arguments of /api/fdr/start
\*   mounts, creates, appends, reads   results of the SPIFFS calls
\*   partial    whether write() may return less than it was given
\*   maxUptime, maxRequests, maxLines  bounds
\* ------------------------------------------------------------------------

\* what write() may return for `bytes`: all of it, or (short writes) nothing,
\* one byte, half of it, all but one byte
WriteCounts(c, bytes) ==
  IF c.partial
  THEN {n \in {0, 1, Len(bytes) \div 2, Len(bytes) - 1, Len(bytes)} : n >= 0}
  ELSE {Len(bytes)}

\* one pass of loop() takes d milliseconds
Tick(c, d) ==
  /\ uptime + d <= c.maxUptime
  /\ uptime' = uptime + d
  /\ clock' = U32Add(clock, U32Of(d))

\* the state when loop() is first entered
Boot(c) ==
  /\ clock \in c.clocks
  /\ pc = "sensor"
  /\ bme_ok \in c.probes
  /\ bmp_used = FALSE
  /\ bad_read_count = 0
  /\ lastTemp = NaN
  /\ lastPressure = NaN
  /\ pressure_ema = NaN
  /\ deviceCount = 0
  /\ obs = Obs("init", {}, <<Call("bme", BME280_ADDRESS_PRIMARY, bme_ok, 0)>>, <<>>)
  /\ sensor_profile = IF bme_ok THEN "high" ELSE "none"
  /\ led = led_setBlue
  /\ fdr_active = FALSE
  /\ fdr_end_ms = U32Zero
  /\ fdr_start_ms = U32Zero
  /\ last_sample_ms = U32Zero
  /\ fdr_sample_interval_ms = DEFAULT_SAMPLE_INTERVAL_MS
  /\ spiffs_mounted = FALSE
  /\ fdr_file = FALSE
  /\ fdr_write_buffer = <<>>
  /\ last_flush_ms = U32Zero
  /\ store \in c.stores
  /\ accepted = <<>>
  /\ session = [whole |-> FALSE, dur |-> U32Zero, rate |-> U32Zero, up |-> 0,
                tick |-> <<>>,
                accept |-> <<>>]
  /\ ev = Ev("boot", NoArg, TRUE, FALSE, FALSE, -1)
  /\ uptime = 0
  /\ requests = 0
  /\ lines = 0

\* loop(): barometer_process()
SensorPhase(c) ==
  /\ pc = "sensor"
  /\ pc' = "request"
  /\ \E t \in c.temps, p \in c.raws, resp \in c.resps, o \in c.outcomes :
       barometer_process(t, p, resp, o)
  /\ \E d \in c.deltas : Tick(c, d)
  /\ ev' = Ev("sensor", NoArg, TRUE, FALSE, FALSE, -1)
  /\ UNCHANGED <<led, fdrVars, accepted, session, requests, lines>>

\* loop(): server.handleClient() with no request pending, or with a request
\* that does not reach the recorder (/api/barometer only reads the sensor)
NoRequest(c) ==
  /\ pc = "request"
  /\ pc' = "recorder"
  /\ ev' = Ev("idle", NoArg, TRUE, FALSE, FALSE, -1)
  /\ UNCHANGED <<clock, uptime, sensorVars, sensor_profile, led, fdrVars,
                 accepted, session, requests, lines>>

Request(c) ==
  /\ pc = "request"
  /\ pc' = "recorder"
  /\ requests < c.maxRequests
  /\ requests' = requests + 1
  /\ UNCHANGED <<clock, uptime, sensorVars, lines>>

\* GET /api/fdr/start
StartRequest(c) ==
  /\ Request(c)
  /\ \E dur \in c.durations, f \in c.rates, mnt \in c.mounts, create \in c.creates :
       fdr_start(dur, f, mnt, create)

\* GET /api/fdr/stop
StopRequest(c) ==
  /\ Request(c)
  /\ \E app \in c.appends, wrote \in WriteCounts(c, fdr_write_buffer) :
       fdr_stop(app, wrote)

\* GET /api/fdr/reset
ResetRequest(c) ==
  /\ Request(c)
  /\ \E mnt \in c.mounts : fdr_reset(mnt)

\* GET /api/fdr/download
DownloadRequest(c) ==
  /\ Request(c)
  /\ \E mnt \in c.mounts, app \in c.appends, read \in c.reads,
        wrote \in WriteCounts(c, fdr_write_buffer) :
       fdr_streamFile(mnt, app, wrote, read)

\* loop(): fdr_process()
RecorderPhase(c) ==
  /\ pc = "recorder"
  /\ pc' = "sensor"
  /\ \E app \in c.appends, wrote \in WriteCounts(c, BytesToWrite) :
       fdr_process(app, wrote)
  /\ lines' = IF ev'.sampled THEN lines + 1 ELSE lines
  /\ lines' <= c.maxLines
  /\ UNCHANGED <<clock, uptime, sensorVars, requests>>

\* ------------------------------------------------------------------------
\* The general specification: every request, short writes, failing SPIFFS
\* calls, a sensor that is found at boot or by a later scan.
\* ------------------------------------------------------------------------

\* /fdr.csv left by an earlier power cycle
OldFile == File(<<HeaderLine>> \o CsvLine(0, hPa(1000)))

BmeFound ==
  [bme1 |-> TRUE, idRead |-> TRUE, id |-> 96, bme2 |-> TRUE, bme3 |-> FALSE,
   bmp |-> FALSE]

General ==
  [clocks |-> {U32Of(6000)},
   stores |-> {NoFile, OldFile},
   probes |-> BOOLEAN,
   deltas |-> {0, 250},
   temps |-> {20},
   raws |-> {hPa(1000)},
   resps |-> {{}, {BME280_ADDRESS_PRIMARY}},
   outcomes |-> {BmeFound},
   durations |-> {U32Of(1)},
   rates |-> {U32Zero, U32Of(51)},
   mounts |-> {<<TRUE, TRUE>>, <<FALSE, TRUE>>, <<FALSE, FALSE>>},
   creates |-> BOOLEAN,
   appends |-> BOOLEAN,
   reads |-> BOOLEAN,
   partial |-> TRUE,
   maxUptime |-> MaxUptime,
   maxRequests |-> MaxRequests,
   maxLines |-> MaxLines]

Init == Boot(General)

Next ==
  \/ SensorPhase(General)
  \/ NoRequest(General)
  \/ StartRequest(General)
  \/ StopRequest(General)
  \/ ResetRequest(General)
  \/ DownloadRequest(General)
  \/ RecorderPhase(General)

Spec == Init /\ [][Next]_vars

\* ------------------------------------------------------------------------
\* The clock specification: one session of /api/fdr/start?duration=2&frequency=10
\* (or of a duration whose milliseconds do not fit 32 bits), begun right after
\* setup() or when the 32-bit clock is about to wrap, run to its end with
\* every write complete.
\* ------------------------------------------------------------------------

ClockUptime == 2200

ClockLines == 22

Clocked ==
  [clocks |-> {U32Of(6000), U32Neg(100), U32Neg(50)},
   stores |-> {NoFile},
   probes |-> {TRUE},
   deltas |-> {50},
   temps |-> {20},
   raws |-> {hPa(1000)},
   resps |-> {{BME280_ADDRESS_PRIMARY}},
   outcomes |-> {BmeFound},
   durations |-> {U32Of(2), U32Of(4294968)},
   rates |-> {U32Of(10)},
   mounts |-> {Mounted},
   creates |-> {TRUE},
   appends |-> {TRUE},
   reads |-> {TRUE},
   partial |-> FALSE,
   maxUptime |-> ClockUptime,
   maxRequests |-> 1,
   maxLines |-> ClockLines]

InitClock == Boot(Clocked)

NextClock ==
  \/ SensorPhase(Clocked)
  \/ NoRequest(Clocked)
  \/ StartRequest(Clocked)
  \/ RecorderPhase(Clocked)

SpecClock == InitClock /\ [][NextClock]_vars

\* ------------------------------------------------------------------------
\* The rate specification: /api/fdr/start with every kind of frequency
\* argument.
\* ------------------------------------------------------------------------

RateUptime == 500

RateRequests == 2

RateLines == 2

Rated ==
  [clocks |-> {U32Of(6000)},
   stores |-> {NoFile},
   probes |-> {TRUE},
   deltas |-> {0, 250},
   temps |-> {20},
   raws |-> {hPa(1000)},
   resps |-> {{BME280_ADDRESS_PRIMARY}},
   outcomes |-> {BmeFound},
   durations |-> {U32Of(1)},
   rates |-> {U32Zero, U32Of(1), U32Of(3), U32Of(7), U32Of(49), U32Of(50),
              U32Of(51), U32Of(1000), U32Of(1001), U32Of(65536), U32Neg(1)},
   mounts |-> {Mounted, <<FALSE, FALSE>>},
   creates |-> BOOLEAN,
   appends |-> {TRUE},
   reads |-> {TRUE},
   partial |-> FALSE,
   maxUptime |-> RateUptime,
   maxRequests |-> RateRequests,
   maxLines |-> RateLines]

InitRate == Boot(Rated)

NextRate ==
  \/ SensorPhase(Rated)
  \/ NoRequest(Rated)
  \/ StartRequest(Rated)
  \/ RecorderPhase(Rated)

SpecRate == InitRate /\ [][NextRate]_vars

\* ------------------------------------------------------------------------
\* The sensor specification: an idle recorder, a bus on which any set of
\* devices and any result of the fallback ladder may show, readings in and
\* out of range.
\* ------------------------------------------------------------------------

SenseUptime == 1250

\* the BME280 driver answers on its second call only, the chip ID unread
RetryFound ==
  [bme1 |-> FALSE, idRead |-> FALSE, id |-> 0, bme2 |-> TRUE, bme3 |-> FALSE,
   bmp |-> FALSE]

\* only the BMP280 driver would answer, but the chip ID cannot be read
IdUnread ==
  [bme1 |-> FALSE, idRead |-> FALSE, id |-> BME280_CHIP_ID, bme2 |-> FALSE,
   bme3 |-> FALSE, bmp |-> TRUE]

LadderOutcomes ==
  [bme1 : BOOLEAN, idRead : {TRUE}, id : {BME280_CHIP_ID, 96}, bme2 : {FALSE},
   bme3 : BOOLEAN, bmp : BOOLEAN] \cup {RetryFound, IdUnread}

Sensing ==
  [clocks |-> {U32Of(6000)},
   stores |-> {NoFile},
   probes |-> BOOLEAN,
   deltas |-> {250},
   temps |-> {20, 90},
   raws |-> {hPa(1000), hPa(1200), NaN},
   resps |-> {{}, {BME280_ADDRESS_PRIMARY},
              {60, BME280_ADDRESS_PRIMARY, BME280_ADDRESS_SECONDARY, 120}},
   outcomes |-> LadderOutcomes,
   durations |-> {U32Of(1)},
   rates |-> {U32Of(1)},
   mounts |-> {Mounted},
   creates |-> {TRUE},
   appends |-> {TRUE},
   reads |-> {TRUE},
   partial |-> FALSE,
   maxUptime |-> SenseUptime,
   maxRequests |-> 0,
   maxLines |-> 0]

InitSense == Boot(Sensing)

NextSense ==
  \/ SensorPhase(Sensing)
  \/ NoRequest(Sensing)
  \/ RecorderPhase(Sensing)

SpecSense == InitSense /\ [][NextSense]_vars

\* ------------------------------------------------------------------------
\* The scan specification: loop() runs for ever on an idle recorder; the
\* sensor is lost to bad readings and found again by scans that may fail.
\* ------------------------------------------------------------------------

FallbackFound ==
  [bme1 |-> FALSE, idRead |-> TRUE, id |-> BME280_CHIP_ID, bme2 |-> FALSE,
   bme3 |-> FALSE, bmp |-> TRUE]

NoneFound ==
  [bme1 |-> FALSE, idRead |-> TRUE, id |-> 96, bme2 |-> FALSE, bme3 |-> FALSE,
   bmp |-> TRUE]

Scanned ==
  [clocks |-> {U32Of(6000)},
   stores |-> {NoFile},
   probes |-> BOOLEAN,
   deltas |-> {0},
   temps |-> {20, 90},
   raws |-> {hPa(1000)},
   resps |-> {{}, {60}, {BME280_ADDRESS_PRIMARY}, {60, BME280_ADDRESS_PRIMARY}},
   outcomes |-> {BmeFound, FallbackFound, NoneFound},
   durations |-> {U32Of(1)},
   rates |-> {U32Of(1)},
   mounts |-> {Mounted},
   creates |-> {TRUE},
   appends |-> {TRUE},
   reads |-> {TRUE},
   partial |-> FALSE,
   maxUptime |-> 0,
   maxRequests |-> 0,
   maxLines |-> 0]

InitScan == Boot(Scanned)

NextScan ==
  \/ SensorPhase(Scanned)
  \/ NoRequest(Scanned)
  \/ RecorderPhase(Scanned)

\* loop() is called again whenever it returns
SpecScan == InitScan /\ [][NextScan]_vars /\ WF_vars(NextScan)

\* ------------------------------------------------------------------------
\* The mixed specification: sessions started and stopped while the sensor
\* gives readings in and out of range, is lost and is found again as either
\* variant.
\* ------------------------------------------------------------------------

MixUptime == 1500

MixRequests == 2

MixLines == 2

Mixed ==
  [clocks |-> {U32Of(6000)},
   stores |-> {NoFile},
   probes |-> BOOLEAN,
   deltas |-> {250},
   temps |-> {20, 90},
   raws |-> {hPa(1000)},
   resps |-> {{}, {BME280_ADDRESS_PRIMARY}},
   outcomes |-> {BmeFound, FallbackFound},
   durations |-> {U32Of(1)},
   rates |-> {U32Of(1)},
   mounts |-> {Mounted},
   creates |-> {TRUE},
   appends |-> {TRUE},
   reads |-> {TRUE},
   partial |-> FALSE,
   maxUptime |-> MixUptime,
   maxRequests |-> MixRequests,
   maxLines |-> MixLines]

InitMix == Boot(Mixed)

NextMix ==
  \/ SensorPhase(Mixed)
  \/ NoRequest(Mixed)
  \/ StartRequest(Mixed)
  \/ StopRequest(Mixed)
  \/ RecorderPhase(Mixed)

SpecMix == InitMix /\ [][NextMix]_vars

\* ------------------------------------------------------------------------
\* Properties of the recorder (spec.md sections 3, 4 and 8)
\* ------------------------------------------------------------------------

\* C1: during one session (a successful start, no reset and no further start
\* since), while it is active and right after it was stopped or expired, the
\* file is the header line followed by bytes that, continued by the write
\* buffer, are exactly the lines of the samples accepted so far, in order,
\* whatever each write() returned.
C1_SessionBytesPreserved ==
  (session.whole /\ (fdr_active \/ ev.op \in {"stop", "expire"})) =>
    /\ store.exists
    /\ Len(store.data) >= 1
    /\ Head(store.data) = HeaderLine
    /\ Tail(store.data) \o fdr_write_buffer = accepted

\* a download of an active session made a short write: the accepted lines are
\* split between the file and the buffer
C1_ShortWriteInSession ==
  /\ session.whole
  /\ fdr_active
  /\ ev.op = "download"
  /\ ev.wrote >= 1
  /\ fdr_write_buffer # <<>>
  /\ Len(accepted) > Len(fdr_write_buffer)

\* C2: one flush of a non-empty buffer in which write() returns `wrote`, with
\* 0 <= wrote <= length, leaves buffer_before[wrote:] in the buffer and
\* appends exactly buffer_before[:wrote] to the file.
C2_FlushKeepsSuffix ==
  [][ev'.wrote >= 0 =>
       LET before == IF ev'.sampled THEN fdr_write_buffer \o SampleLine
                     ELSE fdr_write_buffer
       IN  /\ Len(before) > 0
           /\ ev'.wrote <= Len(before)
           /\ fdr_write_buffer' = Drop(before, ev'.wrote)
           /\ store'.exists
           /\ store'.data = store.data \o Take(before, ev'.wrote)]_vars

\* fdr_process() flushed and write() took a part of the buffer only
C2_ProperPrefixWritten ==
  /\ ev.op = "process"
  /\ ev.sampled
  /\ ev.wrote >= 1
  /\ fdr_write_buffer # <<>>

\* C3: whenever /fdr.csv exists, it is one header line followed by sample
\* lines only (no second header, and never a file without header), also after
\* a reset or a start during an active session.
C3_FileStartsWithOneHeader ==
  store.exists =>
    /\ Len(store.data) >= 1
    /\ store.data[1] = HeaderLine
    /\ \A i \in 2..Len(store.data) : store.data[i] # HeaderLine

\* C4: right after fdr_stop() ended a session, by request or by expiry, the
\* write buffer is empty and, in an undisturbed session, every accepted line
\* is in the file, whatever the last write() returned.
C4_StopDrainsBuffer ==
  (ev.op \in {"stop", "expire"} /\ ev.ok) =>
    /\ fdr_write_buffer = <<>>
    /\ session.whole => Tail(store.data) = accepted

\* C5: a due tick that finds the sensor not ready appends nothing and leaves
\* last_sample_ms alone, so that the tick is still due in the next pass.
C5_SkippedTickKeepsLastSample ==
  [][(/\ pc = "recorder"
      /\ fdr_active
      /\ ~Expired(clock)
      /\ SampleDue(clock)
      /\ ~barometer_isReady) =>
       /\ fdr_write_buffer' = fdr_write_buffer
       /\ last_sample_ms' = last_sample_ms]_vars

\* C6: every fdr_process() of an active, unexpired session that runs with a
\* non-empty buffer when the buffer holds 1024 bytes or 250 ms have passed
\* since the last flush calls write(), whether or not it accepts a sample.
C6_OverdueFlushAttempted ==
  [][(/\ pc = "recorder"
      /\ fdr_active
      /\ ~Expired(clock)
      /\ fdr_file
      /\ Len(fdr_write_buffer) > 0
      /\ FlushDue(fdr_write_buffer, clock)) => ev'.wrote >= 0]_vars

\* C7: after /api/fdr/start?duration=2&frequency=10 the interval is 100 ms,
\* the first fdr_process() at or after the end time stops the session and
\* appends nothing, no line carries 2 s or more, and the file holds the
\* header and at most 20 sample lines.
C7_TwoSecondsAtTenHertz ==
  [][(session'.dur = U32Of(2) /\ session'.rate = U32Of(10)) =>
       /\ (ev'.op = "start" /\ ev'.ok) => fdr_sample_interval_ms' = 100
       /\ (pc = "recorder" /\ fdr_active /\ Expired(clock)) =>
            (~fdr_active' /\ accepted' = accepted)
       /\ ev'.sampled => U32Nat(U32Sub(clock, fdr_start_ms)) < 2000
       /\ store'.exists =>
            /\ Head(store'.data) = HeaderLine
            /\ Cardinality({i \in 1..Len(store'.data) : store'.data[i] = "\n"}) <= 20]_vars

\* C8: fdr_process() stops an active session in the first pass in which
\* duration_s * 1000 ms or more have passed since the start, and in no
\* earlier one, for every duration_s and every value of millis() at the start.
C8_SessionLastsDuration ==
  [][(pc = "recorder" /\ fdr_active) =>
       (~fdr_active' <=> (uptime - session.up) \div 1000 >= U32Nat(session.dur))]_vars

\* C9: a successful fdr_start() leaves 1000 div s in fdr_sample_interval_ms
\* for a rate s in 1..50, 1000 for s = 0 and 20 for s > 50: a value in 20..1000.
C9_IntervalFromRate ==
  (ev.op = "start" /\ ev.ok) =>
    LET s == ev.arg[2]
    IN  /\ s = U32Zero => fdr_sample_interval_ms = 1000
        /\ (s[1] = 0 /\ 1 <= s[2] /\ s[2] <= 50) =>
             fdr_sample_interval_ms = 1000 \div s[2]
        /\ (s[1] > 0 \/ s[2] > 50) => fdr_sample_interval_ms = 20
        /\ fdr_sample_interval_ms \in 20..1000

\* a session was started with a rate above the maximum
C9_StartedAboveMaximum ==
  /\ ev.op = "start"
  /\ ev.ok
  /\ fdr_active
  /\ ev.arg[2] = U32Neg(1)
  /\ fdr_sample_interval_ms = 20

\* C10: fdr_process() of an active, unexpired session attempts a sample
\* exactly when the session took no tick yet or the interval has passed since
\* its last tick, and two samples accepted one after the other are at least
\* one interval apart.
C10_TicksOneIntervalApart ==
  [][(pc = "recorder" /\ fdr_active /\ ~Expired(clock)) =>
       /\ ev'.due <=> (\/ session.tick = <<>>
                       \/ uptime - session.tick[1] >= fdr_sample_interval_ms)
       /\ (ev'.sampled /\ session.accept # <<>>) =>
            uptime - session.accept[1] >= fdr_sample_interval_ms]_vars

\* C11: a successful fdr_start(), whatever the recorder was doing, leaves one
\* session, the one just started: the recorder is active until the new end
\* time, /fdr.csv holds the header line only, the buffer is empty and
\* last_sample_ms is unset.
C11_StartLeavesOneFreshSession ==
  (ev.op = "start" /\ ev.ok) =>
    /\ fdr_isActive
    /\ fdr_file
    /\ store = File(<<HeaderLine>>)
    /\ fdr_write_buffer = <<>>
    /\ last_sample_ms = U32Zero
    /\ fdr_start_ms = clock
    /\ fdr_end_ms = EndTime(clock, ev.arg[1])

\* a second start succeeded while the session of the first, which had
\* accepted a sample, was still running
C11_RestartWhileRecording ==
  /\ ev.op = "start"
  /\ ev.ok
  /\ requests = 2
  /\ lines >= 1
  /\ uptime < 1000

\* C12: an ensureSpiffs() that finds the store unmounted calls
\* SPIFFS.begin(false) and, if that fails, SPIFFS.begin(true), once each; an
\* fdr_start() in which both fail returns false and leaves the recorder, the
\* file, the sensor profile and the LED as they were; once mounted, no
\* handler calls SPIFFS.begin() again, and an active session is mounted.
C12_MountOnceOrFail ==
  [][(pc = "request" /\ ev'.op \in {"start", "reset", "download"}) =>
       /\ spiffs_mounted => (ev'.mounts = <<>> /\ spiffs_mounted')
       /\ ~spiffs_mounted => ev'.mounts \in {<<FALSE>>, <<FALSE, TRUE>>}
       /\ ev'.mounts = <<FALSE>> => spiffs_mounted'
       /\ fdr_active' => spiffs_mounted'
       /\ (ev'.op = "start" /\ ~spiffs_mounted') =>
            /\ ev'.mounts = <<FALSE, TRUE>>
            /\ ~ev'.ok
            /\ UNCHANGED <<fdr_active, fdr_end_ms, fdr_start_ms, last_sample_ms,
                           fdr_sample_interval_ms, fdr_file, fdr_write_buffer,
                           last_flush_ms, store, sensor_profile, led>>]_vars

\* fdr_start() failed after both mounts failed, an old file in the store
C12_StartWithoutStore ==
  /\ ev.op = "start"
  /\ ~ev.ok
  /\ ev.mounts = <<FALSE, TRUE>>
  /\ ~spiffs_mounted
  /\ store.exists

\* C13: fdr_stop() and fdr_process() on an idle recorder change nothing: not
\* the file, the handle, the buffer, a session field, the sensor profile or
\* the LED.
C13_IdleStopIsNoOp ==
  [][(/\ ~fdr_active
      /\ \/ pc = "request" /\ ev'.op = "stop"
         \/ pc = "recorder") =>
       UNCHANGED <<fdrVars, sensor_profile, led>>]_vars

\* fdr_stop() ran on an idle recorder that holds unwritten bytes of the
\* session before
C13_StopWhileIdle ==
  /\ ev.op = "stop"
  /\ ~ev.ok
  /\ store.exists
  /\ fdr_write_buffer # <<>>

\* C14: fdr_stop() leaves the recorder idle when it returns, an idle
\* fdr_process() accepts no sample and writes nothing, and a start or stop
\* made in the request step has switched the sensor profile and the LED
\* before fdr_process() of the same pass of loop() runs.
C14_StopIsImmediate ==
  [][/\ ev'.op = "stop" => ~fdr_active'
     /\ (pc = "recorder" /\ ~fdr_active) =>
          /\ ~ev'.sampled
          /\ ev'.wrote = -1
          /\ fdr_write_buffer' = fdr_write_buffer
          /\ store' = store
     /\ pc = "request" =>
          /\ pc' = "recorder"
          /\ (ev'.op = "start" /\ ev'.ok) =>
               /\ fdr_active'
               /\ led' = "green"
               /\ sensor_profile' = IF bme_ok THEN "fast" ELSE sensor_profile
          /\ (ev'.op = "stop" /\ fdr_active) =>
               /\ led' = "blue"
               /\ sensor_profile' = IF bme_ok THEN "high" ELSE sensor_profile]_vars

\* a session that had accepted a sample was stopped by request, and
\* fdr_process() of that pass is next
C14_StoppedBeforeCycle ==
  /\ ev.op = "stop"
  /\ ev.ok
  /\ pc = "recorder"
  /\ accepted # <<>>
  /\ led = "blue"

\* C15: a download during an active session with a non-empty buffer flushes
\* the buffer first, streams a file that holds every byte that was buffered,
\* and leaves the session active.
C15_ExportIncludesBufferedLines ==
  [][(/\ pc = "request"
      /\ ev'.op = "download"
      /\ fdr_active
      /\ fdr_write_buffer # <<>>) =>
       /\ ev'.wrote >= 0
       /\ fdr_active'
       /\ ev'.ok => store'.data = store.data \o fdr_write_buffer]_vars

\* ------------------------------------------------------------------------
\* Properties of the sensor (spec.md sections 3, 4.1 and 8)
\* ------------------------------------------------------------------------

\* C16: after a reading of an active sensor, the sensor has been sent back
\* to scanning exactly when the last three readings taken since it was found
\* are all out of range (temperature outside [-40, 85] or pressure outside
\* [300, 1100]); the counter is then 0, and otherwise it is the number of
\* out-of-range readings in a row, 0 after a reading in range.
C16_ThreeBadReadingsForceScan ==
  obs.kind = "read" =>
    LET n == Len(obs.reads)
        Bad(i) == LET t == obs.reads[i][1]
                      p == obs.reads[i][2]
                  IN  \/ t = NaN \/ t < -40 \/ t > 85
                      \/ p = NaN \/ p < hPa(300) \/ p > hPa(1100)
        run == IF ~Bad(n) THEN 0
               ELSE IF n = 1 \/ ~Bad(n - 1) THEN 1
               ELSE IF n = 2 \/ ~Bad(n - 2) THEN 2
               ELSE 3
    IN  /\ bme_ok <=> run < 3
        /\ bad_read_count = IF run = 3 THEN 0 ELSE run

\* two readings out of range, then one in range: still active, counter 0
C16_TwoBadThenGood ==
  /\ obs.kind = "read"
  /\ Len(obs.reads) = 3
  /\ obs.reads[1][2] = hPa(1200)
  /\ obs.reads[2][1] = 90
  /\ obs.reads[3] = <<20, hPa(1000)>>
  /\ bme_ok
  /\ bad_read_count = 0

\* C17: a reading that fails validation while pressure_ema is undefined
\* leaves it undefined, the first reading that passes sets it to the raw
\* value, and a defined pressure_ema stays defined as long as the device
\* stays in use.
C17_FilterStartsAtFirstValidReading ==
  [][(pc = "sensor" /\ bme_ok) =>
       LET rd == obs'.reads[Len(obs'.reads)]
           InRange == /\ rd[1] # NaN /\ rd[1] >= -40 /\ rd[1] <= 85
                      /\ rd[2] # NaN /\ rd[2] >= hPa(300) /\ rd[2] <= hPa(1100)
       IN  /\ pressure_ema = NaN =>
                pressure_ema' = IF InRange THEN rd[2] ELSE NaN
           /\ (pressure_ema # NaN /\ bme_ok') => pressure_ema' # NaN]_vars

C19_ProbeOrder ==
  obs.kind = "scan" =>
    LET a == obs.attempts
        n == Len(a)
        Order == <<<<"bme", 118>>, <<"id", 118>>, <<"bme", 118>>,
                   <<"bme", 119>>, <<"bmp", 118>>>>
        Opened(i) == a[i].drv # "id" /\ a[i].ok
    IN  IF 118 \notin obs.resp
        THEN n = 0 /\ ~bme_ok
        ELSE /\ n \in {1, 3, 4, 5}
             /\ \A i \in 1..n : <<a[i].drv, a[i].addr>> = Order[i]
             /\ \A i \in 1..(n - 1) : ~Opened(i)
             /\ n < 4 => Opened(n)
             /\ n = 4 => (Opened(4) \/ ~a[2].ok \/ a[2].val # 88)
             /\ n = 5 => (a[2].ok /\ a[2].val = 88)
             /\ bme_ok <=> Opened(n)
             /\ bmp_used <=> (Opened(n) /\ a[n].drv = "bmp")

\* fail, chip ID 0x58, fail, fail, BMP280 answers
C19_FallbackDriverFound ==
  /\ obs.kind = "scan"
  /\ Len(obs.attempts) = 5
  /\ obs.attempts[2].val = 88
  /\ obs.attempts[5].ok
  /\ bme_ok
  /\ bmp_used

\* C20: a failed probe in barometer_init() leaves the sensor not ready; every
\* barometer_process() of a sensor that is not ready is one scan of addresses
\* 1..119 that takes no reading (temperature, smoothed pressure and bad-read
\* counter unchanged) and ends with the sensor ready if the primary address
\* acknowledged and a driver answered; so, with loop() called for ever, a
\* sensor that is not ready becomes ready if from some point on no scan fails.
C20_ScanUntilFound ==
  /\ [](obs.kind = "init" => (bme_ok <=> obs.attempts[1].ok))
  /\ [][(pc = "sensor" /\ ~bme_ok) =>
          /\ obs'.kind = "scan"
          /\ UNCHANGED <<lastTemp, lastPressure, pressure_ema, bad_read_count>>
          /\ deviceCount' <= Cardinality(obs'.resp \cap 1..119)
          /\ ~bme_ok' => deviceCount' = Cardinality(obs'.resp \cap 1..119)
          /\ bme_ok' <=>
               /\ 118 \in obs'.resp
               /\ \E i \in 1..Len(obs'.attempts) :
                    obs'.attempts[i].drv # "id" /\ obs'.attempts[i].ok]_vars
  /\ (<>[]~(obs.kind = "scan" /\ ~bme_ok)) => ((~bme_ok) ~> bme_ok)

\* a sensor lost to three bad readings was found again by a scan
C20_FoundAgain ==
  /\ obs.kind = "scan"
  /\ bme_ok
  /\ lastTemp = 90
  /\ bad_read_count = 0

\* ------------------------------------------------------------------------
\* Properties of the recorder and the sensor together (spec.md sections 5
\* to 8)
\* ------------------------------------------------------------------------

\* C21: a fdr_start() that fails because /fdr.csv cannot be opened for
\* writing, the store being mounted already, leaves fdr_active,
\* fdr_sample_interval_ms, the write buffer, the file handle and the file in
\* the store as they were before the call.
C21_FailedOpenChangesNothing ==
  [][(pc = "request" /\ spiffs_mounted /\ ev'.op = "start" /\ ~ev'.ok) =>
       UNCHANGED <<fdr_active, fdr_sample_interval_ms, fdr_write_buffer,
                   fdr_file, store>>]_vars

\* C22: whenever fdr_process() accepts a sample, barometer_isReady() being
\* true, the smoothed pressure it reads with barometer_getPressure() is
\* defined.
C22_SampledPressureDefined ==
  (ev.op = "process" /\ ev.sampled) => barometer_getPressure # NaN

\* C23: whenever the sensor is ready, the active driver is configured in the
\* fast profile if a session is active and in the high-precision profile
\* if the recorder is idle.
C23_ProfileFollowsSession ==
  barometer_isReady =>
    sensor_profile = IF fdr_isActive THEN "fast" ELSE "high"

\* C24: in every state, after setup() and after every call of the recorder,
\* the colour last shown on the LED is the recording colour if and only if
\* fdr_isActive() is true, and the idle colour otherwise.
C24_LedShowsRecording ==
  led = IF fdr_isActive THEN "green" ELSE "blue"

\* fdr_start() failed on opening the file while a session was active; the
\* session stays active and the LED green
C24_FailedStartWhileRecording ==
  /\ ev.op = "start"
  /\ ~ev.ok
  /\ spiffs_mounted
  /\ fdr_isActive
  /\ led = "green"

\* C25: in every state the bad-read counter is 0, 1 or 2, and while the
\* sensor is not ready the counter is 0 and the fallback variant is not
\* selected; the request step and the recorder's cycle of loop() (fdr_start(),
\* fdr_stop(), fdr_process() and the barometer_setFastMode() they call)
\* change none of bme_ok, bmp_used and bad_read_count.
C25_SensorBookkeeping ==
  /\ [](/\ bad_read_count \in 0 .. 2
        /\ ~barometer_isReady => (bad_read_count = 0 /\ ~bmp_used))
  /\ [][pc # "sensor" => UNCHANGED <<bme_ok, bmp_used, bad_read_count>>]_vars

\* fdr_start() has just switched the fallback variant, two bad readings
\* counted, to the fast profile
C25_StartAfterTwoBadReadings ==
  /\ ev.op = "start"
  /\ ev.ok
  /\ barometer_isReady
  /\ bmp_used
  /\ bad_read_count = 2
  /\ sensor_profile = "fast"

====
